---------------------------- MODULE Spec2Model ----------------------------
(***************************************************************************)
(* A model of the notebooks of HighPerformanceTensorFlowOnAzure:           *)
(*                                                                         *)
(*   Sandbox/TrainingCodeSnippets.ipynb  image enumeration, the stratified *)
(*                                       split, batched feature extraction *)
(*   02-train/02-train.ipynb             train.py and its submission       *)
(*   03-hyperdrive (unnamed/part_000)    the hyperparameter sweep          *)
(*                                                                         *)
(* Calls into libraries (os, zip, scikit-learn, Keras) are modelled by     *)
(* what the called function does; every such definition names the call     *)
(* site it stands for.  Strings that the code sorts are sequences of       *)
(* character codes, because the order of the sort is the code point order. *)
(* Floating point values that the code only passes along (l1, l2, the      *)
(* test fraction) are exact rationals: thousandths or hundredths.          *)
(***************************************************************************)
EXTENDS Integers, Sequences, FiniteSets, TLC

VARIABLES
    \* ---- Sandbox/TrainingCodeSnippets.ipynb ----
    sb_pc,            \* position in the cells of the sandbox notebook
    sb_err,           \* the exception that halted the notebook, or "none"
    dir,              \* the tree under img_dir: folder name -> number of images
    label_map,        \* create_image_list: folder name -> label
    zipped,           \* what create_image_list returned: zip(*labeled_image_list)
    img_list,         \* the unpacked image paths
    label_list,       \* the unpacked labels
    train_imgs, valid_imgs, train_labels, valid_labels,   \* train_test_split
    train_features, valid_features,                       \* featurizer.extract
    gen,              \* an ImageGenerator built with an explicit batch_size
    gen_batches,      \* the batches predict_generator drew from gen
    gen_features,     \* the features predict_generator returned for gen
    loaded,           \* every pathname handed to image.load_img
    fit,              \* the training cell: its step counts and the batches of one epoch
    \* ---- 02-train.ipynb and the hyperparameter tuning notebook ----
    nb,               \* the notebook that is run: "02-train", "03-hyperdrive" or "none"
    nb_pc,            \* the cell the notebook is about to run, "end" or "halted"
    nb_err,           \* the exception that halted the notebook, or "none"
    halted_at,        \* the cell that raised, or "none"
    issued,           \* how often each remote operation has been issued
    existing,         \* the type of the workspace's target of the chosen name, or "none"
    lookup,           \* the outcome of the compute target lookup
    compute_target,   \* the target the notebook holds (dsvm_compute / compute_target)
    hdr,              \* the status of the sweep's parent run, or "none"
    runs,             \* the training runs: the single run, or the sweep's child runs
    failures,         \* the child runs that have failed
    best_run,         \* the index in runs of the sweep's best run, or 0
    registered,       \* the models in the registry
    acc_seed,         \* which accuracies and which grid order the sweep meets
    datastore         \* the bottleneck folder of the datastore: file -> its arrays

sbvars == << sb_pc, sb_err, dir, label_map, zipped, img_list, label_list,
             train_imgs, valid_imgs, train_labels, valid_labels,
             train_features, valid_features, gen, gen_batches, gen_features,
             loaded, fit >>

cloudvars == << nb, nb_pc, nb_err, halted_at, issued, existing, lookup, compute_target,
                hdr, runs, failures, best_run, registered, acc_seed, datastore >>

vars == << sbvars, cloudvars >>

-----------------------------------------------------------------------------
(* Bounds of the model.                                                    *)

MaxFolders == 3       \* class subfolders under img_dir
MaxRng == 2           \* outcomes of the seeded random generator explored
MaxSmallBatch == 4    \* explicit batch sizes 1..MaxSmallBatch, besides the default
MaxEpochs == 2        \* epochs a run is followed for (FLAGS.epochs is capped at it)
MaxAcc == 2           \* accuracies are levels 0..MaxAcc
MaxFailures == 1      \* child runs of one sweep that fail
MaxFaulty == 2        \* the child runs 1..MaxFaulty of a sweep are the ones that can fail
MaxSeed == 0          \* accuracy tables and grid orders explored: 0..MaxSeed

-----------------------------------------------------------------------------
(* Generic helpers.                                                        *)

Min(a, b) == IF a < b THEN a ELSE b

Range(s) == { s[i] : i \in DOMAIN s }

\* Python's s[a:b] for 0 <= a <= b: the slice is clipped to the sequence.
Slice(s, a, b) == SubSeq(s, Min(a, Len(s)) + 1, Min(b, Len(s)))

\* All orderings of a finite set, as sequences.
Orderings(S) ==
    { s \in [1..Cardinality(S) -> S] : \A i, j \in 1..Cardinality(S) : s[i] = s[j] => i = j }

\* The concatenation of a sequence of sequences (split in halves, so that the
\* recursion stays shallow on long lists).
RECURSIVE Flatten(_)
Flatten(ss) ==
    IF Len(ss) = 0 THEN << >>
    ELSE IF Len(ss) = 1 THEN ss[1]
    ELSE LET h == Len(ss) \div 2
         IN  Flatten(SubSeq(ss, 1, h)) \o Flatten(SubSeq(ss, h + 1, Len(ss)))

\* s rotated left by r places.
Rotate(s, r) ==
    IF s = << >> THEN << >>
    ELSE LET k == r % Len(s) IN SubSeq(s, k + 1, Len(s)) \o SubSeq(s, 1, k)


-----------------------------------------------------------------------------
(* Sandbox/TrainingCodeSnippets.ipynb: the inputs.                         *)

\* Folder names, as character codes: "B", "forest", "wat", "water".
NameB == << 66 >>
Forest == << 102, 111, 114, 101, 115, 116 >>
NameWat == << 119, 97, 116 >>
Water == << 119, 97, 116, 101, 114 >>

FolderNames == { NameB, Forest, NameWat, Water }

\* Numbers of images a class folder may hold.
ImageCounts == { 0, 1, 2, 3, 5, 12, 70 }

\* The trees under img_dir: up to MaxFolders class folders, each with its images.
SmallDirectories ==
    UNION { [S -> ImageCounts] : S \in { T \in SUBSET FolderNames : Cardinality(T) <= MaxFolders } }

\* A tree whose validation subset fills a batch of the extractor: 500 images,
\* 75 of them for validation.
LargeDirectory == [ f \in { Forest, Water } |-> IF f = Forest THEN 70 ELSE 430 ]

\* The trees under img_dir the model explores.
Directories == SmallDirectories \cup { LargeDirectory }

\* batch_size=64, the default of ImageGenerator.__init__.
DefaultBatchSize == 64

\* The batch sizes an ImageGenerator is built with.
BatchSizes == (1..MaxSmallBatch) \cup { DefaultBatchSize }

\* test_size=0.15, in hundredths.
TestSizePercent == 15

-----------------------------------------------------------------------------
(* create_image_list                                                       *)

\* a < b for two Python strings: code point order, a proper prefix first.
StrLess(a, b) ==
    \E k \in 1..(Min(Len(a), Len(b)) + 1) :
        /\ \A j \in 1..(k - 1) : a[j] = b[j]
        /\ \/ k > Len(a) /\ k <= Len(b)
           \/ k <= Len(a) /\ k <= Len(b) /\ a[k] < b[k]

RECURSIVE Insert(_, _)
Insert(x, s) ==
    IF s = << >> THEN << x >>
    ELSE IF StrLess(x, Head(s)) THEN << x >> \o s
    ELSE << Head(s) >> \o Insert(x, Tail(s))

\* A listing left in the order os.listdir gave it.
SortFolders_unsorted(s) == s

\* folders.sort()
RECURSIVE SortFolders(_)
SortFolders(s) == IF s = << >> THEN << >> ELSE Insert(Head(s), SortFolders(Tail(s)))

\* Labels counted from 1.
LabelMap_fromOne(folders) ==
    [ f \in Range(folders) |-> CHOOSE i \in DOMAIN folders : folders[i] = f ]

\* label_map = {key: value for (key, value) in zip(folders, range(len(folders)))}
LabelMap(folders) ==
    [ f \in Range(folders) |-> (CHOOSE i \in DOMAIN folders : folders[i] = f) - 1 ]

\* os.path.join(img_dir, folder, image): the path of an image.
PathJoin(folder, image) == << folder, image >>

\* os.listdir(os.path.join(img_dir, folder)): the images of one folder.
ListImages(d, folder) == [ i \in 1..d[folder] |-> i ]

\* A comprehension that walks the folders from the last to the first.
LabeledImageList_backwards(d, folders, lm) ==
    Flatten([ k \in DOMAIN folders |->
                LET folder == folders[Len(folders) + 1 - k]
                IN  [ i \in 1..d[folder] |->
                        << PathJoin(folder, ListImages(d, folder)[i]), lm[folder] >> ] ])

\* The list comprehension: one (path, label) pair per image, folder by folder.
LabeledImageList(d, folders, lm) ==
    Flatten([ k \in DOMAIN folders |->
                [ i \in 1..d[folders[k]] |->
                    << PathJoin(folders[k], ListImages(d, folders[k])[i]), lm[folders[k]] >> ] ])

\* zip(*pairs): no tuple at all for an empty list, else the two columns.
ZipStar(pairs) ==
    IF pairs = << >> THEN << >>
    ELSE << [ i \in DOMAIN pairs |-> pairs[i][1] ], [ i \in DOMAIN pairs |-> pairs[i][2] ] >>

\* create_image_list(img_dir), for one order in which os.listdir names the folders.
CreateImageList ==
    /\ sb_pc = "start"
    /\ UNCHANGED cloudvars
    /\ UNCHANGED fit
    /\ \E listing \in Orderings(DOMAIN dir) :
         LET folders == SortFolders(listing)
             lm == LabelMap(folders)
         IN  /\ label_map' = lm
             /\ zipped' = ZipStar(LabeledImageList(dir, folders, lm))
    /\ sb_pc' = "listed"
    /\ UNCHANGED << sb_err, dir, img_list, label_list, train_imgs, valid_imgs,
                    train_labels, valid_labels, train_features, valid_features,
                    gen, gen_batches, gen_features, loaded >>

\* img_list, label_list = create_image_list(img_dir): the unpacking of the zip.
UnpackImageList ==
    /\ sb_pc = "listed"
    /\ UNCHANGED cloudvars
    /\ UNCHANGED fit
    /\ IF Len(zipped) = 2
       THEN /\ img_list' = zipped[1]
            /\ label_list' = zipped[2]
            /\ sb_pc' = "unpacked"
            /\ UNCHANGED sb_err
       ELSE /\ sb_pc' = "error"
            /\ sb_err' = "ValueError"
            /\ UNCHANGED << img_list, label_list >>
    /\ UNCHANGED << dir, label_map, zipped, train_imgs, valid_imgs, train_labels,
                    valid_labels, train_features, valid_features, gen, gen_batches,
                    gen_features, loaded >>

-----------------------------------------------------------------------------
(* ImageGenerator and ResNetFeaturizer                                     *)

\* ImageGenerator.__init__
ImageGenerator(image_list, batch_size) ==
    [ image_list |-> image_list, batch_size |-> batch_size ]

\* A length that counts the last, partial batch too.
ImageGenerator_len_ceil(g) == (Len(g.image_list) + g.batch_size - 1) \div g.batch_size

\* ImageGenerator.__len__
ImageGenerator_len(g) == Len(g.image_list) \div g.batch_size

\* A slice that starts at the index itself, not at index * batch_size.
ImageGenerator_pathnames_unscaled(g, index) ==
    Slice(g.image_list, index, index + g.batch_size)

\* The pathnames ImageGenerator.__getitem__ slices out for batch `index`.
ImageGenerator_pathnames(g, index) ==
    Slice(g.image_list, index * g.batch_size, (index + 1) * g.batch_size)

\* ImageGenerator.__load_images: one image per pathname, in order.
ImageGenerator_load_images(pathnames) ==
    [ i \in DOMAIN pathnames |-> [ pixels_of |-> pathnames[i] ] ]

\* ImageGenerator.__getitem__
ImageGenerator_getitem(g, index) ==
    ImageGenerator_load_images(ImageGenerator_pathnames(g, index))

\* One forward pass of the backbone: one feature vector per image of the batch.
Predict(images) == [ i \in DOMAIN images |-> [ feature_of |-> images[i].pixels_of ] ]

\* The batches Model.predict_generator draws: generator[0] .. generator[len - 1].
DrawnBatches(g) == [ i \in 1..ImageGenerator_len(g) |-> ImageGenerator_getitem(g, i - 1) ]

\* Model.predict_generator(generator): the features of the drawn batches, in order.
PredictGenerator(g) == Flatten([ i \in 1..ImageGenerator_len(g) |-> Predict(DrawnBatches(g)[i]) ])

\* The pathnames predict_generator made the generator load.
LoadedBy(g) ==
    UNION { Range(ImageGenerator_pathnames(g, i - 1)) : i \in 1..ImageGenerator_len(g) }

\* An extractor that draws its images one at a time.
ExtractGenerator_single(image_list) == ImageGenerator(image_list, 1)

\* ResNetFeaturizer.extract builds its generator with the default batch size.
ExtractGenerator(image_list) == ImageGenerator(image_list, DefaultBatchSize)

\* ResNetFeaturizer.extract
Extract(image_list) == PredictGenerator(ExtractGenerator(image_list))

\* An ImageGenerator over the enumerated images with an explicit batch size,
\* run through predict_generator.
UseGenerator ==
    /\ sb_pc = "unpacked"
    /\ UNCHANGED cloudvars
    /\ UNCHANGED fit
    /\ \E b \in BatchSizes :
         LET g == ImageGenerator(img_list, b)
         IN  /\ gen' = g
             /\ gen_batches' = DrawnBatches(g)
             /\ gen_features' = PredictGenerator(g)
             /\ loaded' = loaded \cup LoadedBy(g)
    /\ sb_pc' = "predicted"
    /\ UNCHANGED << sb_err, dir, label_map, zipped, img_list, label_list, train_imgs,
                    valid_imgs, train_labels, valid_labels, train_features,
                    valid_features >>

-----------------------------------------------------------------------------
(* train_test_split(img_list, label_list, test_size=0.15, random_state=0,  *)
(* stratify=label_list): scikit-learn's stratified shuffle split.  The     *)
(* seeded generator is an input of the model: rng names one outcome of     *)
(* its draws, and ties of the allocation go to any of the tied classes.    *)

RECURSIVE SumOver(_, _)
SumOver(f, S) ==
    IF S = {} THEN 0
    ELSE LET c == CHOOSE x \in S : TRUE IN f[c] + SumOver(f, S \ {c})

\* n_test = ceil(test_size * n_samples)
NTest(n) == (TestSizePercent * n + 99) \div 100

\* train_size is None: n_train = n_samples - n_test
NTrain(n) == n - NTest(n)

\* np.unique(y): the classes that occur.
Classes(labels) == Range(labels)

\* np.bincount(y_indices)
ClassCounts(labels) ==
    [ c \in Classes(labels) |-> Cardinality({ i \in DOMAIN labels : labels[i] = c }) ]

\* The three checks of StratifiedShuffleSplit that raise ValueError.
SplitRaises(labels) ==
    LET cc == ClassCounts(labels)
        n == Len(labels)
    IN  \/ \E c \in DOMAIN cc : cc[c] < 2
        \/ NTrain(n) < Cardinality(DOMAIN cc)
        \/ NTest(n) < Cardinality(DOMAIN cc)

\* _approximate_mode(class_counts, n_draws, rng): every class gets the floor of
\* its share, and the draws left over go to the classes with the largest
\* remainders, one each; which of several equal remainders is the rng's choice.
ApproximateMode(cc, n_draws) ==
    LET C == DOMAIN cc
        total == SumOver(cc, C)
        floored == [ c \in C |-> IF total = 0 THEN 0 ELSE (n_draws * cc[c]) \div total ]
        rem == [ c \in C |-> IF total = 0 THEN 0 ELSE (n_draws * cc[c]) % total ]
        need == n_draws - SumOver(floored, C)
    IN  { [ c \in C |-> floored[c] + (IF c \in A THEN 1 ELSE 0) ] :
            A \in { B \in SUBSET C :
                      /\ Cardinality(B) = need
                      /\ \A a \in B, b \in C \ B : rem[a] >= rem[b] } }

\* class_indices[c]: the positions of class c, ascending (a stable argsort).
ClassIndices(labels, c) ==
    LET Of(i) == labels[i] = c IN SelectSeq([ i \in 1..Len(labels) |-> i ], Of)

\* The classes in ascending order.
ClassSeq(labels) ==
    LET In(c) == c \in Classes(labels)
        top == CHOOSE m \in Classes(labels) : \A c \in Classes(labels) : c <= m
    IN  SelectSeq([ k \in 1..(top + 1) |-> k - 1 ], In)

\* rng.permutation(x), for outcome r of the generator.
Permutation(x, r) == Rotate(x, r)

\* perm_indices_class_i[:n_i[i]]
TrainPart(perm, ni) == SubSeq(perm, 1, ni)

\* A test slice that starts one place early.
TestPart_early(perm, ni, ti) == SubSeq(perm, ni, Min(ni + ti - 1, Len(perm)))

\* perm_indices_class_i[n_i[i]:n_i[i] + t_i[i]]
TestPart(perm, ni, ti) == SubSeq(perm, ni + 1, Min(ni + ti, Len(perm)))

\* A shuffle split that ignores the classes (stratify left out).
ShuffleSplit(labels) ==
    { LET perm == Rotate([ i \in 1..Len(labels) |-> i ], r)
      IN  [ train |-> SubSeq(perm, 1, NTrain(Len(labels))),
            test |-> SubSeq(perm, NTrain(Len(labels)) + 1, Len(labels)) ] : r \in 0..MaxRng }

\* StratifiedShuffleSplit._iter_indices: the (train, test) index lists it can yield.
StratifiedShuffleSplit(labels) ==
    LET cc == ClassCounts(labels)
        n == Len(labels)
        cs == ClassSeq(labels)
    IN  { LET remaining == [ c \in DOMAIN cc |-> cc[c] - ni[c] ]
              ti == CHOOSE t \in ApproximateMode(remaining, NTest(n)) : TRUE
              perm == [ c \in DOMAIN cc |-> Permutation(ClassIndices(labels, c), r + c) ]
              train == Flatten([ k \in DOMAIN cs |-> TrainPart(perm[cs[k]], ni[cs[k]]) ])
              test == Flatten([ k \in DOMAIN cs |-> TestPart(perm[cs[k]], ni[cs[k]], ti[cs[k]]) ])
          IN  [ train |-> Permutation(train, r), test |-> Permutation(test, r + 1) ] :
            ni \in ApproximateMode(cc, NTrain(n)), r \in 0..MaxRng }

\* safe_indexing(a, indices)
SafeIndexing(a, indices) == [ k \in DOMAIN indices |-> a[indices[k]] ]

\* The train_test_split call of the notebook.
TrainTestSplit ==
    /\ sb_pc = "unpacked"
    /\ UNCHANGED cloudvars
    /\ UNCHANGED fit
    /\ IF SplitRaises(label_list)
       THEN /\ sb_pc' = "error"
            /\ sb_err' = "ValueError"
            /\ UNCHANGED << train_imgs, valid_imgs, train_labels, valid_labels >>
       ELSE /\ \E sp \in StratifiedShuffleSplit(label_list) :
                 /\ train_imgs' = SafeIndexing(img_list, sp.train)
                 /\ valid_imgs' = SafeIndexing(img_list, sp.test)
                 /\ train_labels' = SafeIndexing(label_list, sp.train)
                 /\ valid_labels' = SafeIndexing(label_list, sp.test)
            /\ sb_pc' = "split"
            /\ UNCHANGED sb_err
    /\ UNCHANGED << dir, label_map, zipped, img_list, label_list, train_features,
                    valid_features, gen, gen_batches, gen_features, loaded >>

\* train_features = featurizer.extract(train_imgs)
ExtractTrain ==
    /\ sb_pc = "split"
    /\ UNCHANGED cloudvars
    /\ UNCHANGED fit
    /\ train_features' = Extract(train_imgs)
    /\ loaded' = loaded \cup LoadedBy(ExtractGenerator(train_imgs))
    /\ sb_pc' = "train_extracted"
    /\ UNCHANGED << sb_err, dir, label_map, zipped, img_list, label_list, train_imgs,
                    valid_imgs, train_labels, valid_labels, valid_features, gen,
                    gen_batches, gen_features >>

\* valid_features = featurizer.extract(valid_imgs)
ExtractValid ==
    /\ sb_pc = "train_extracted"
    /\ UNCHANGED cloudvars
    /\ UNCHANGED fit
    /\ valid_features' = Extract(valid_imgs)
    /\ loaded' = loaded \cup LoadedBy(ExtractGenerator(valid_imgs))
    /\ sb_pc' = "valid_extracted"
    /\ UNCHANGED << sb_err, dir, label_map, zipped, img_list, label_list, train_imgs,
                    valid_imgs, train_labels, valid_labels, train_features, gen,
                    gen_batches, gen_features >>

\* A cell that slices the validation labels of the split.
ValidLabelSource_split(cut_train_labels, split_valid_labels) == split_valid_labels

\* The list that the second assignment slices: train_labels, already cut.
ValidLabelSource(cut_train_labels, split_valid_labels) == cut_train_labels

\* train_labels = train_labels[0:len(train_features)]
\* valid_labels = train_labels[0:len(valid_features)]
SliceLabels ==
    /\ sb_pc = "valid_extracted"
    /\ UNCHANGED cloudvars
    /\ UNCHANGED fit
    /\ LET sliced == Slice(train_labels, 0, Len(train_features))
       IN  /\ train_labels' = sliced
           /\ valid_labels' = Slice(ValidLabelSource(sliced, valid_labels), 0,
                                    Len(valid_features))
    /\ sb_pc' = "prepared"
    /\ UNCHANGED << sb_err, dir, label_map, zipped, img_list, label_list, train_imgs,
                    valid_imgs, train_features, valid_features, gen, gen_batches,
                    gen_features, loaded >>

-----------------------------------------------------------------------------
(* The training cell of the sandbox notebook.  A dataset element is named  *)
(* by its position in the features; one epoch of model.fit is followed.    *)

\* A training batch size that is not the extractor's.
fit_batch_size_other == 64 - 16

\* batch_size = 64 of the training cell
fit_batch_size == 64

\* The training cell has not run.
NoFit ==
    [ steps_per_epoch |-> 0, validation_steps |-> 0, train_epoch |-> << >>,
      valid_epoch |-> << >> ]

\* dataset.batch(batch_size): the elements in groups of batch_size, in order,
\* the last group holding what is left.
DatasetBatch(elements, b) ==
    [ i \in 1..((Len(elements) + b - 1) \div b) |-> Slice(elements, (i - 1) * b, i * b) ]

\* create_dataset(data, labels, batch_size, train): the batches of one pass
\* over the dataset, for outcome r of the shuffle.
create_dataset(data, labels, b, train, r) ==
    LET elements == [ i \in 1..Min(Len(data), Len(labels)) |-> i ]
    IN  DatasetBatch(IF train THEN Permutation(elements, r) ELSE elements, b)

\* dataset.repeat(), of which model.fit draws `steps` batches in an epoch.
DrawnInEpoch(batches, steps) ==
    [ k \in 1..(IF batches = << >> THEN 0 ELSE steps) |->
        batches[((k - 1) % Len(batches)) + 1] ]

\* The training cell, up to the end of the first epoch of model.fit.
TrainingCell ==
    /\ sb_pc = "prepared"
    /\ UNCHANGED cloudvars
    /\ \E r \in 0..MaxRng :
         LET steps_per_epoch == Len(train_features) \div fit_batch_size
             validation_steps == Len(valid_features) \div fit_batch_size
             train_dataset == create_dataset(train_features, train_labels, fit_batch_size,
                                             TRUE, r)
             valid_dataset == create_dataset(valid_features, valid_labels, fit_batch_size,
                                             FALSE, r)
         IN  fit' = [ steps_per_epoch |-> steps_per_epoch,
                      validation_steps |-> validation_steps,
                      train_epoch |-> DrawnInEpoch(train_dataset, steps_per_epoch),
                      valid_epoch |-> DrawnInEpoch(valid_dataset, validation_steps) ]
    /\ sb_pc' = "fitted"
    /\ UNCHANGED << sb_err, dir, label_map, zipped, img_list, label_list, train_imgs,
                    valid_imgs, train_labels, valid_labels, train_features,
                    valid_features, gen, gen_batches, gen_features, loaded >>

-----------------------------------------------------------------------------
(* train.py, the script that 02-train.ipynb and the hyperparameter tuning   *)
(* notebook both write with %%writefile: the same text in both.  A run of   *)
(* the script is a record; each statement of main and train_evaluate that   *)
(* can raise is one step on it.  l1 and l2 are in thousandths.              *)

\* tf.app.flags.DEFINE_*: the defaults of the flags.
FlagDefaults ==
    [ batch_size |-> 32, epochs |-> 10, units |-> 512, l1 |-> 10, l2 |-> 10,
      data_folder |-> "./bottleneck" ]

\* Flags that keep their defaults whatever the command line.
ParseFlags_defaults(args) == FlagDefaults

\* tf.app.run(): a flag named on the command line takes the value given there.
ParseFlags(args) ==
    [ f \in DOMAIN FlagDefaults |-> IF f \in DOMAIN args THEN args[f] ELSE FlagDefaults[f] ]

\* model_file = os.path.join('outputs', 'aerial_classifier.hd5')
model_file == "outputs/aerial_classifier.hd5"

\* The epochs model.fit goes through, capped at the bound of the model.
EpochsToRun(flags) == Min(flags.epochs, MaxEpochs)

\* The files of the data folder: FLAGS.train_file_name, FLAGS.valid_file_name.
DataFiles == { "train", "valid" }

\* The arrays of the files as the feature extraction persisted them.
Persisted ==
    [ f \in DataFiles |-> [ features |-> << f, "features" >>, labels |-> << f, "labels" >> ] ]

\* A file that holds no array.
NoArrays == [ features |-> << >>, labels |-> << >> ]

\* What a run holds of a file it has not read.
Unread == [ features |-> << "unread" >>, labels |-> << "unread" >> ]

\* A file opened in mode "w": it is truncated.
h5py_File_w(store, f) == [ store EXCEPT ![f] = NoArrays ]

\* h5py.File(name, "r"): the folder after the file has been opened.
h5py_File(store, f) == store

\* ds.path('bottleneck').as_mount(): the script works on the datastore itself;
\* with as_download() it works on a copy.
Mounted(r) == r.args.data_folder = "bottleneck as_mount"

\* The datastore after the run has opened file f (ok: the statement did not raise).
StoreAfter(r, f, ok, store) == IF ok /\ Mounted(r) THEN h5py_File(store, f) ELSE store

\* np.array(hfile.get('features')), np.array(hfile.get('labels')): the arrays
\* the run holds of file f.
ReadArrays(r, f, store) == [ r EXCEPT !.data = [ @ EXCEPT ![f] = h5py_File(store, f)[f] ] ]

\* A run as the service creates it: the script has not started.
NewRun(experiment, target, args) ==
    [ experiment |-> experiment, target |-> target, args |-> args,
      flags |-> FlagDefaults, status |-> "Running", pc |-> "main", epoch |-> 0,
      training_acc |-> << >>, validation_acc |-> << >>, log |-> << >>,
      outputs |-> {}, files |-> {}, trace |-> << >>,
      data |-> [ f \in DataFiles |-> Unread ] ]

\* An uncaught exception in a statement: the script ends there.
Raise(r) == [ r EXCEPT !.pc = "failed", !.trace = Append(@, << r.pc, r.epoch >>) ]

\* A statement that went through, and the statement that follows it.
Proceed(r, next) == [ r EXCEPT !.pc = next, !.trace = Append(@, << r.pc, r.epoch >>) ]

\* main: run = Run.get_submitted_run(), with the flags parsed by tf.app.run().
main(r, ok) ==
    IF ok THEN [ Proceed(r, "load_train") EXCEPT !.flags = ParseFlags(r.args) ] ELSE Raise(r)

\* with h5py.File(train_file_name, "r") as hfile: ...
load_train(r, ok, store) ==
    IF ok THEN Proceed(ReadArrays(r, "train", store), "load_valid") ELSE Raise(r)

\* with h5py.File(valid_file_name, "r") as hfile: ...
load_valid(r, ok, store) ==
    IF ok THEN Proceed(ReadArrays(r, "valid", store), "build") ELSE Raise(r)

\* model = fcn_classifier(...); run_callback = RunCallback(run)
fcn_classifier(r, ok) == IF ok THEN Proceed(r, "fit") ELSE Raise(r)

\* run.log(name, value): the value joins the metric of that name; log keeps
\* the calls in their order.
run_log(r, name, value) ==
    [ r EXCEPT ![name] = Append(@, value), !.log = Append(@, << name, value >>) ]

\* A callback that logs the validation accuracy first.
on_epoch_end_validation_first(r, acc, val_acc) ==
    run_log(run_log(r, "validation_acc", val_acc), "training_acc", acc)

\* RunCallback.on_epoch_end: training_acc is logged, then validation_acc.
on_epoch_end(r, acc, val_acc) ==
    run_log(run_log(r, "training_acc", acc), "validation_acc", val_acc)

\* A fit that returns after its first epoch.
fit_epoch_once(r, ok, acc, val_acc) ==
    IF ok
    THEN [ Proceed(on_epoch_end(r, acc, val_acc), "save") EXCEPT !.epoch = r.epoch + 1 ]
    ELSE Raise(r)

\* model.fit: one epoch, with its callback; after the last epoch fit returns.
fit_epoch(r, ok, acc, val_acc) ==
    IF ok
    THEN LET logged == on_epoch_end(r, acc, val_acc)
             after == IF r.epoch + 1 >= EpochsToRun(r.flags) THEN "save" ELSE "fit"
         IN  [ Proceed(logged, after) EXCEPT !.epoch = r.epoch + 1 ]
    ELSE Raise(r)

\* os.makedirs('outputs', exist_ok=True); model.save(model_file)
save_model(r, ok) ==
    IF ok THEN [ Proceed(r, "done") EXCEPT !.outputs = @ \cup { model_file } ] ELSE Raise(r)

\* The statement the script is at, run with the given outcome.
ScriptStep(r, ok, acc, val_acc, store) ==
    CASE r.pc = "main"       -> main(r, ok)
      [] r.pc = "load_train" -> load_train(r, ok, store)
      [] r.pc = "load_valid" -> load_valid(r, ok, store)
      [] r.pc = "build"      -> fcn_classifier(r, ok)
      [] r.pc = "fit"        -> fit_epoch(r, ok, acc, val_acc)
      [] r.pc = "save"       -> save_model(r, ok)
      [] OTHER               -> r

\* A process whose way of ending is not looked at.
script_exit_unseen(r) == [ r EXCEPT !.status = "Finalizing" ]

\* The process has ended: a script that raised leaves a failed run, one that
\* returned leaves a run whose outputs folder is still to be collected.
script_exit(r) == [ r EXCEPT !.status = IF r.pc = "failed" THEN "Failed" ELSE "Finalizing" ]

\* The files of ./outputs are added to the run's record and the run completes.
finalize(r) == [ r EXCEPT !.status = "Completed", !.files = @ \cup r.outputs ]

\* The statuses in which a run no longer occupies its compute target.
Terminal == { "Completed", "Failed", "Canceled" }

\* The accuracies a run can log: levels, higher is better.
AccValues == 0..MaxAcc

-----------------------------------------------------------------------------
(* The notebooks.  A notebook is run cell by cell from the top; a cell that *)
(* raises ends the run of the notebook.  Only the cells that reach the      *)
(* service are steps; the cells that build local objects (the estimator,    *)
(* the sampling, the policy, the sweep's configuration) are the definitions *)
(* those steps read.                                                        *)

Notebooks == { "02-train", "03-hyperdrive" }

\* The cells of a notebook that call the service, in the order of the notebook.
Cells(n) ==
    IF n = "02-train"
    THEN << "workspace", "compute", "submit", "wait", "files", "delete" >>
    ELSE << "workspace", "compute", "submit", "wait", "best", "metrics", "files",
            "register", "delete" >>

CellIndex(n, c) == CHOOSE i \in DOMAIN Cells(n) : Cells(n)[i] = c

NextCell(n, c) ==
    IF CellIndex(n, c) = Len(Cells(n)) THEN "end" ELSE Cells(n)[CellIndex(n, c) + 1]

\* The calls to the service, and the cell each one stands in.
OpCell ==
    [ from_config |-> "workspace", lookup |-> "compute", create |-> "compute",
      wait_provisioned |-> "compute", submit |-> "submit", wait_for_completion |-> "wait",
      get_best_run |-> "best", get_metrics |-> "metrics", get_file_names |-> "files",
      register_model |-> "register", delete |-> "delete" ]

Operations == DOMAIN OpCell

\* The calls in ops have been issued once more.
Issue(ops) == issued' = [ o \in Operations |-> issued[o] + IF o \in ops THEN 1 ELSE 0 ]

\* The cell ran to its end: the next cell is run.
Advance(c) ==
    /\ nb_pc' = NextCell(nb, c)
    /\ UNCHANGED << nb_err, halted_at >>

\* A cell that is run again when it raised.
Halt_retry(c, exception) == UNCHANGED << nb_pc, nb_err, halted_at >>

\* The cell raised: the traceback is shown and no further cell is run.
Halt(c, exception) ==
    /\ nb_pc' = "halted"
    /\ nb_err' = exception
    /\ halted_at' = c

\* ws = Workspace.from_config()
ConnectWorkspace ==
    /\ nb_pc = "workspace"
    /\ Issue({ "from_config" })
    /\ \E ok \in BOOLEAN : IF ok THEN Advance("workspace") ELSE Halt("workspace", "Exception")
    /\ UNCHANGED << nb, existing, lookup, compute_target, hdr, runs, failures, best_run,
                    registered, acc_seed, datastore >>
    /\ UNCHANGED sbvars

\* The notebook holds no compute target yet.
NoTarget == [ type |-> "none", origin |-> "none" ]

\* What the constructor of the lookup can do, given the workspace's target of
\* that name: return it, raise ComputeTargetException, or fail in another way.
LookupOutcomes(accepted) ==
    (IF existing \in accepted THEN { "found" } ELSE { "ComputeTargetException" })
        \cup { "Exception" }

\* A lookup that falls into the creation whatever it did.
ExceptClause_always(outcome) == TRUE

\* except ComputeTargetException: the outcome of the lookup the handler takes.
ExceptClause(outcome) == outcome = "ComputeTargetException"

\* try: <lookup>  except ComputeTargetException: <configure, create, wait>
\* The cell as a whole, for a lookup that accepts the given types and a
\* creation of the given type.
LookupOrCreate(accepted, type) ==
    /\ nb_pc = "compute"
    /\ \E outcome \in LookupOutcomes(accepted) :
        /\ lookup' = outcome
        /\ IF ExceptClause(outcome)
           THEN \E created, provisioned \in BOOLEAN :
                  IF ~created
                  THEN /\ Issue({ "lookup", "create" })
                       /\ Halt("compute", "Exception")
                       /\ UNCHANGED << compute_target, existing >>
                  ELSE /\ Issue({ "lookup", "create", "wait_provisioned" })
                       /\ compute_target' = [ type |-> type, origin |-> "created" ]
                       /\ existing' = type
                       /\ IF provisioned THEN Advance("compute")
                                         ELSE Halt("compute", "Exception")
           ELSE /\ Issue({ "lookup" })
                /\ UNCHANGED existing
                /\ IF outcome = "found"
                   THEN /\ compute_target' = [ type |-> existing, origin |-> "found" ]
                        /\ Advance("compute")
                   ELSE /\ Halt("compute", outcome)
                        /\ UNCHANGED compute_target
    /\ UNCHANGED << nb, hdr, runs, failures, best_run, registered, acc_seed, datastore >>
    /\ UNCHANGED sbvars

-----------------------------------------------------------------------------
(* 02-train.ipynb                                                           *)

\* dsvm_compute = DsvmCompute(workspace=ws, name=compute_target_name), or its
\* creation with DsvmCompute.create and wait_for_completion(show_output=True).
DsvmTargetCell ==
    /\ nb = "02-train"
    /\ LookupOrCreate({ "DsvmCompute" }, "DsvmCompute")

\* script_params of the estimator of 02-train.ipynb.
TrainScriptParams ==
    [ data_folder |-> "bottleneck as_download", l1 |-> 1, l2 |-> 1, units |-> 512,
      epochs |-> 75 ]

\* run = exp.submit(config=est, tags=tags)
SubmitRun ==
    /\ nb = "02-train"
    /\ nb_pc = "submit"
    /\ Issue({ "submit" })
    /\ \E ok \in BOOLEAN :
         IF ok
         THEN /\ runs' = << NewRun("aerial-classifier-train", compute_target,
                                   TrainScriptParams) >>
              /\ Advance("submit")
         ELSE /\ Halt("submit", "Exception")
              /\ UNCHANGED runs
    /\ UNCHANGED << nb, existing, lookup, compute_target, hdr, failures, best_run,
                    registered, acc_seed, datastore >>
    /\ UNCHANGED sbvars

\* The single run of 02-train.ipynb is at statement p of train.py.
ScriptAt(p) ==
    /\ nb = "02-train"
    /\ Len(runs) = 1
    /\ runs[1].status = "Running"
    /\ runs[1].pc = p

\* What a statement of the run that opens a data file leaves alone.
LoadOnly ==
    /\ UNCHANGED << nb, nb_pc, nb_err, halted_at, issued, existing, lookup,
                    compute_target, hdr, failures, best_run, registered, acc_seed >>
    /\ UNCHANGED sbvars

\* What a step of the run leaves alone.
RunOnly ==
    /\ LoadOnly
    /\ UNCHANGED datastore

\* main(): the run is looked up and train_evaluate is entered.
ScriptMain ==
    /\ ScriptAt("main")
    /\ \E ok \in BOOLEAN : runs' = << main(runs[1], ok) >>
    /\ RunOnly

\* train_evaluate: the training file is read.
ScriptLoadTrain ==
    /\ ScriptAt("load_train")
    /\ \E ok \in BOOLEAN :
         /\ runs' = << load_train(runs[1], ok, datastore) >>
         /\ datastore' = StoreAfter(runs[1], "train", ok, datastore)
    /\ LoadOnly

\* train_evaluate: the validation file is read.
ScriptLoadValid ==
    /\ ScriptAt("load_valid")
    /\ \E ok \in BOOLEAN :
         /\ runs' = << load_valid(runs[1], ok, datastore) >>
         /\ datastore' = StoreAfter(runs[1], "valid", ok, datastore)
    /\ LoadOnly

\* train_evaluate: the network is built.
ScriptBuildModel ==
    /\ ScriptAt("build")
    /\ \E ok \in BOOLEAN : runs' = << fcn_classifier(runs[1], ok) >>
    /\ RunOnly

\* train_evaluate: one epoch of model.fit.
ScriptFitEpoch ==
    /\ ScriptAt("fit")
    /\ \E ok \in BOOLEAN, acc \in AccValues, val_acc \in AccValues :
         runs' = << fit_epoch(runs[1], ok, acc, val_acc) >>
    /\ RunOnly

\* train_evaluate: the model is saved.
ScriptSaveModel ==
    /\ ScriptAt("save")
    /\ \E ok \in BOOLEAN : runs' = << save_model(runs[1], ok) >>
    /\ RunOnly

\* The script has returned or raised: the process ends.
ScriptEnds ==
    /\ nb = "02-train"
    /\ Len(runs) = 1
    /\ runs[1].status = "Running"
    /\ runs[1].pc \in { "done", "failed" }
    /\ runs' = << script_exit(runs[1]) >>
    /\ RunOnly

\* The service has collected ./outputs of the run.
OutputsCollected ==
    /\ nb = "02-train"
    /\ Len(runs) = 1
    /\ runs[1].status = "Finalizing"
    /\ runs' = << finalize(runs[1]) >>
    /\ RunOnly

\* A wait that returns without looking at the run.
wait_for_completion_at_once(status) == TRUE

\* Run.wait_for_completion: the call polls the run and returns once the run
\* is no longer running (the recorded output of the cell shows 'Finalizing').
wait_for_completion(status) == status # "Running"

\* run.wait_for_completion(show_output=False)
WaitRun ==
    /\ nb = "02-train"
    /\ nb_pc = "wait"
    /\ wait_for_completion(runs[1].status)
    /\ Issue({ "wait_for_completion" })
    /\ \E ok \in BOOLEAN : IF ok THEN Advance("wait") ELSE Halt("wait", "Exception")
    /\ UNCHANGED << nb, existing, lookup, compute_target, hdr, runs, failures, best_run,
                    registered, acc_seed, datastore >>
    /\ UNCHANGED sbvars

\* print(run.get_file_names())
RunFileNames ==
    /\ nb = "02-train"
    /\ nb_pc = "files"
    /\ Issue({ "get_file_names" })
    /\ \E ok \in BOOLEAN : IF ok THEN Advance("files") ELSE Halt("files", "Exception")
    /\ UNCHANGED << nb, existing, lookup, compute_target, hdr, runs, failures, best_run,
                    registered, acc_seed, datastore >>
    /\ UNCHANGED sbvars

\* A cell that deletes only when every run has ended.
DeleteGuard_terminal(rs) == \A k \in DOMAIN rs : rs[k].status \in Terminal

\* The delete cell is the bare call: no condition on the runs stands before it.
DeleteGuard(rs) == TRUE

\* dsvm_compute.delete()
DeleteDsvm ==
    /\ nb = "02-train"
    /\ nb_pc = "delete"
    /\ DeleteGuard(runs)
    /\ Issue({ "delete" })
    /\ \E ok \in BOOLEAN :
         IF ok
         THEN /\ existing' = "none"
              /\ Advance("delete")
         ELSE /\ Halt("delete", "Exception")
              /\ UNCHANGED existing
    /\ UNCHANGED << nb, lookup, compute_target, hdr, runs, failures, best_run,
                    registered, acc_seed, datastore >>
    /\ UNCHANGED sbvars

-----------------------------------------------------------------------------
(* The hyperparameter tuning notebook (03-hyperdrive).  The sweep itself is *)
(* run by the HyperDrive service; it is modelled by what the service does   *)
(* with the configuration the notebook submits.  A child run goes through   *)
(* train.py in one step of the model: the children do not share state.      *)

\* compute_target = ComputeTarget(workspace=ws, name=cluster_name): whatever its
\* type the target found is kept; else BatchAiCompute is provisioned.
BatchAiTargetCell ==
    /\ nb = "03-hyperdrive"
    /\ LookupOrCreate({ "BatchAiCompute", "DsvmCompute" }, "BatchAiCompute")

\* '--units': choice(256, 512)
UnitsChoices == << 256, 512 >>

\* '--l1': choice(0.001, 0.01, 0.05)
L1Choices == << 1, 10, 50 >>

\* '--l2': choice(0.001, 0.01, 0.05)
L2Choices == << 1, 10, 50 >>

\* GridParameterSampling: the number of points of the grid.
GridSize == Len(UnitsChoices) * Len(L1Choices) * Len(L2Choices)

\* A grid whose points take l2 at the index of l1.
GridPoint_l1twice(i) ==
    [ units |-> UnitsChoices[(i \div (Len(L1Choices) * Len(L2Choices))) + 1],
      l1    |-> L1Choices[((i \div Len(L2Choices)) % Len(L1Choices)) + 1],
      l2    |-> L2Choices[((i \div Len(L2Choices)) % Len(L1Choices)) + 1] ]

\* GridParameterSampling: point i of the grid, 0 <= i < GridSize.
GridPoint(i) ==
    [ units |-> UnitsChoices[(i \div (Len(L1Choices) * Len(L2Choices))) + 1],
      l1    |-> L1Choices[((i \div Len(L2Choices)) % Len(L1Choices)) + 1],
      l2    |-> L2Choices[(i % Len(L2Choices)) + 1] ]

\* GridParameterSampling: the grid.
Grid == { GridPoint(i) : i \in 0..(GridSize - 1) }

\* script_params of the estimator of the sweep.
HyperScriptParams == [ data_folder |-> "bottleneck as_mount", epochs |-> 50 ]

\* HyperDriveRunConfig(max_total_runs=12)
max_total_runs == 12

\* A configuration that lets one more run execute.
max_concurrent_runs_five == 4 + 1

\* HyperDriveRunConfig(max_concurrent_runs=4)
max_concurrent_runs == 4

\* BatchAiCompute.provisioning_configuration(cluster_max_nodes=4)
cluster_max_nodes == 4

\* Estimator(node_count=1)
node_count == 1

\* experiment_name of the notebook.
experiment_name(n) ==
    IF n = "02-train" THEN "aerial-classifier-train" ELSE "aerial-classifier-hyperdrive"

\* The runs the service creates for the sweep: the grid has no more points.
TotalRuns == Min(max_total_runs, GridSize)

\* The k-th point the service takes from the grid: it walks the grid once,
\* from a point of its choice.
SweepPoint(seed, k) ==
    GridPoint((k - 1 + seed * Len(L1Choices) * Len(L2Choices)) % GridSize)

\* The command line of the k-th child: script_params and the point's values.
ChildArgs(seed, k) ==
    LET p == SweepPoint(seed, k)
    IN  [ data_folder |-> HyperScriptParams.data_folder, epochs |-> HyperScriptParams.epochs,
          units |-> p.units, l1 |-> p.l1, l2 |-> p.l2 ]

\* The accuracies the k-th child reaches in epoch e: one child outdoes the
\* others in its last epoch.
ValAcc(seed, k, e) ==
    IF k = MaxFaulty - seed THEN Min(e, MaxAcc) ELSE (k + e) % MaxAcc

TrainAcc(seed, k, e) == Min(e, MaxAcc)

\* The statements at which a child run can raise: the first read, before any
\* metric is logged, and model.save, after all of them.
NoFault == << "none", 0 >>

ChildFaults == { << "load_train", 0 >>, << "save", MaxEpochs >> }

\* The child runs that can raise: the first ones the service starts.
FaultyChildren == 1..MaxFaulty

\* A policy that stops a run whose last validation accuracy is not the top one.
policy_lagging(r) ==
    /\ r.validation_acc # << >>
    /\ r.validation_acc[Len(r.validation_acc)] < MaxAcc

\* policy = NoTerminationPolicy(): whether the service stops run r on the
\* metrics the run has logged so far.
policy(r) == FALSE

\* The service stops a run: its process is killed where it is.
Cancel(r) ==
    [ r EXCEPT !.status = "Canceled", !.pc = "stopped",
               !.trace = Append(@, << r.pc, r.epoch >>) ]

\* train.py from the statement the run is at to its end, under the policy of
\* the sweep, which the service applies to the metrics after each statement.
RECURSIVE RunScript(_, _, _, _, _)
RunScript(r, fault, seed, k, store) ==
    IF r.pc \in { "done", "failed", "stopped" } THEN r
    ELSE IF policy(r) THEN Cancel(r)
    ELSE RunScript(ScriptStep(r, << r.pc, r.epoch >> # fault,
                              TrainAcc(seed, k, r.epoch + 1), ValAcc(seed, k, r.epoch + 1),
                              store),
                   fault, seed, k, store)

\* A child run from its start to its final status.
RunToEnd(r, fault, seed, k, store) ==
    LET ended  == RunScript(r, fault, seed, k, store)
        exited == IF ended.pc = "stopped" THEN ended ELSE script_exit(ended)
    IN  IF exited.status = "Finalizing" THEN finalize(exited) ELSE exited

\* The datastore after a child run: the files the script opened.
StoreAfterRun(ended, store) ==
    LET s1 == StoreAfter(ended, "train", ended.data["train"] # Unread, store)
    IN  StoreAfter(ended, "valid", ended.data["valid"] # Unread, s1)

\* The child runs that occupy the cluster.
Running(rs) == { k \in DOMAIN rs : rs[k].status \notin Terminal }

\* hdr = exp.submit(config=htc)
SubmitSweep ==
    /\ nb = "03-hyperdrive"
    /\ nb_pc = "submit"
    /\ Issue({ "submit" })
    /\ \E ok \in BOOLEAN :
         IF ok
         THEN /\ hdr' = "Running"
              /\ Advance("submit")
         ELSE /\ Halt("submit", "Exception")
              /\ UNCHANGED hdr
    /\ UNCHANGED << nb, existing, lookup, compute_target, runs, failures, best_run,
                    registered, acc_seed, datastore >>
    /\ UNCHANGED sbvars

\* What the end of a child run leaves alone.
ChildOnly ==
    /\ UNCHANGED << nb, nb_pc, nb_err, halted_at, issued, existing, lookup,
                    compute_target, best_run, registered, acc_seed >>
    /\ UNCHANGED sbvars

\* What a step of the service leaves alone.
ServiceOnly ==
    /\ ChildOnly
    /\ UNCHANGED datastore

\* The service starts the next child: max_total_runs and max_concurrent_runs allow it.
StartChild ==
    /\ hdr = "Running"
    /\ Len(runs) < TotalRuns
    /\ Cardinality(Running(runs)) < max_concurrent_runs
    /\ runs' = Append(runs, NewRun(experiment_name(nb), compute_target,
                                   ChildArgs(acc_seed, Len(runs) + 1)))
    /\ UNCHANGED << hdr, failures >>
    /\ ServiceOnly

\* A child run ends: train.py returned or raised at one of its statements.
ChildEnds ==
    /\ hdr = "Running"
    /\ \E k \in Running(runs), fault \in ChildFaults \cup { NoFault } :
         /\ fault # NoFault => k \in FaultyChildren /\ Cardinality(failures) < MaxFailures
         /\ runs' = [ runs EXCEPT ![k] = RunToEnd(runs[k], fault, acc_seed, k, datastore) ]
         /\ failures' = IF fault # NoFault THEN failures \cup { k } ELSE failures
         /\ datastore' = StoreAfterRun(runs'[k], datastore)
    /\ UNCHANGED hdr
    /\ ChildOnly

\* All the runs of the sweep have ended: the parent run completes.
SweepCompletes ==
    /\ hdr = "Running"
    /\ Len(runs) = TotalRuns
    /\ Running(runs) = {}
    /\ hdr' = "Completed"
    /\ UNCHANGED << runs, failures >>
    /\ ServiceOnly

\* hdr.wait_for_completion(show_output=True)
WaitSweep ==
    /\ nb = "03-hyperdrive"
    /\ nb_pc = "wait"
    /\ wait_for_completion(hdr)
    /\ Issue({ "wait_for_completion" })
    /\ \E ok \in BOOLEAN : IF ok THEN Advance("wait") ELSE Halt("wait", "Exception")
    /\ UNCHANGED << nb, existing, lookup, compute_target, hdr, runs, failures, best_run,
                    registered, acc_seed, datastore >>
    /\ UNCHANGED sbvars

\* primary_metric_name='validation_acc': the run has logged the metric.
HasPrimaryMetric(r) == r.validation_acc # << >>

\* primary_metric_goal=PrimaryMetricGoal.MAXIMIZE: the greatest value the run logged.
PrimaryMetric(r) ==
    CHOOSE v \in Range(r.validation_acc) : \A w \in Range(r.validation_acc) : w <= v

\* get_best_run_by_primary_metric(): the best performing runs among all the
\* child runs of the sweep, whatever their status.
BestRuns(rs) ==
    { k \in DOMAIN rs :
        /\ HasPrimaryMetric(rs[k])
        /\ \A j \in DOMAIN rs :
             HasPrimaryMetric(rs[j]) => PrimaryMetric(rs[j]) <= PrimaryMetric(rs[k]) }

\* best_run = hdr.get_best_run_by_primary_metric(): one of the best runs, or
\* None (0) when no child logged the metric.
GetBestRun ==
    /\ nb = "03-hyperdrive"
    /\ nb_pc = "best"
    /\ Issue({ "get_best_run" })
    /\ \E ok \in BOOLEAN :
         IF ok
         THEN /\ IF BestRuns(runs) = {} THEN best_run' = 0
                                       ELSE best_run' \in BestRuns(runs)
              /\ Advance("best")
         ELSE /\ Halt("best", "Exception")
              /\ UNCHANGED best_run
    /\ UNCHANGED << nb, existing, lookup, compute_target, hdr, runs, failures,
                    registered, acc_seed, datastore >>
    /\ UNCHANGED sbvars

\* A cell that calls a method of best_run: AttributeError when best_run is None.
BestRunCall(c, op) ==
    /\ nb = "03-hyperdrive"
    /\ nb_pc = c
    /\ IF best_run = 0
       THEN /\ Halt(c, "AttributeError")
            /\ UNCHANGED issued
       ELSE /\ Issue({ op })
            /\ \E ok \in BOOLEAN : IF ok THEN Advance(c) ELSE Halt(c, "Exception")
    /\ UNCHANGED << nb, existing, lookup, compute_target, hdr, runs, failures, best_run,
                    registered, acc_seed, datastore >>
    /\ UNCHANGED sbvars

\* best_run_metrics = best_run.get_metrics() and the prints of the cell.
BestRunMetrics == BestRunCall("metrics", "get_metrics")

\* print(best_run.get_file_names())
BestRunFileNames == BestRunCall("files", "get_file_names")

\* model = best_run.register_model(model_name='aerial_classifier',
\*                                 model_path='outputs/aerial_classifier.hd5')
\* The service refuses a path that is not among the files of the run.
RegisterModel ==
    /\ nb = "03-hyperdrive"
    /\ nb_pc = "register"
    /\ IF best_run = 0
       THEN /\ Halt("register", "AttributeError")
            /\ UNCHANGED << issued, registered >>
       ELSE /\ Issue({ "register_model" })
            /\ \E ok \in BOOLEAN :
                 IF ok /\ "outputs/aerial_classifier.hd5" \in runs[best_run].files
                 THEN /\ registered' = registered \cup
                            { [ name |-> "aerial_classifier", run |-> best_run,
                                path |-> "outputs/aerial_classifier.hd5" ] }
                      /\ Advance("register")
                 ELSE /\ Halt("register", "Exception")
                      /\ UNCHANGED registered
    /\ UNCHANGED << nb, existing, lookup, compute_target, hdr, runs, failures, best_run,
                    acc_seed, datastore >>
    /\ UNCHANGED sbvars

\* compute.target.delete(): no cell binds the name compute.
DeleteTarget ==
    /\ nb = "03-hyperdrive"
    /\ nb_pc = "delete"
    /\ Halt("delete", "NameError")
    /\ UNCHANGED << nb, issued, existing, lookup, compute_target, hdr, runs, failures,
                    best_run, registered, acc_seed, datastore >>
    /\ UNCHANGED sbvars

-----------------------------------------------------------------------------
(* The specifications.                                                      *)

\* The targets the workspace can hold under the name a notebook looks up.
ExistingTargets(n) ==
    IF n = "02-train" THEN { "none", "DsvmCompute" }
    ELSE { "none", "BatchAiCompute", "DsvmCompute" }

\* No notebook of the service is run.
CloudIdle ==
    /\ nb = "none"
    /\ nb_pc = "end"
    /\ nb_err = "none"
    /\ halted_at = "none"
    /\ issued = [ o \in Operations |-> 0 ]
    /\ existing = "none"
    /\ lookup = "none"
    /\ compute_target = NoTarget
    /\ hdr = "none"
    /\ runs = << >>
    /\ failures = {}
    /\ best_run = 0
    /\ registered = {}
    /\ acc_seed = 0
    /\ datastore = Persisted

\* The sandbox notebook is not run.
SbIdle ==
    /\ sb_pc = "idle"
    /\ sb_err = "none"
    /\ dir = << >>
    /\ label_map = << >>
    /\ zipped = << >>
    /\ img_list = << >>
    /\ label_list = << >>
    /\ train_imgs = << >>
    /\ valid_imgs = << >>
    /\ train_labels = << >>
    /\ valid_labels = << >>
    /\ train_features = << >>
    /\ valid_features = << >>
    /\ gen = ImageGenerator(<< >>, DefaultBatchSize)
    /\ gen_batches = << >>
    /\ gen_features = << >>
    /\ loaded = {}
    /\ fit = NoFit

\* The sandbox notebook is run on a directory of images.
SbInit ==
    /\ sb_pc = "start"
    /\ sb_err = "none"
    /\ dir \in Directories
    /\ label_map = << >>
    /\ zipped = << >>
    /\ img_list = << >>
    /\ label_list = << >>
    /\ train_imgs = << >>
    /\ valid_imgs = << >>
    /\ train_labels = << >>
    /\ valid_labels = << >>
    /\ train_features = << >>
    /\ valid_features = << >>
    /\ gen = ImageGenerator(<< >>, DefaultBatchSize)
    /\ gen_batches = << >>
    /\ gen_features = << >>
    /\ loaded = {}
    /\ fit = NoFit
    /\ CloudIdle

SbNext ==
    \/ CreateImageList
    \/ UnpackImageList
    \/ UseGenerator
    \/ TrainTestSplit
    \/ ExtractTrain
    \/ ExtractValid
    \/ SliceLabels
    \/ TrainingCell

SpecSandbox == SbInit /\ [][SbNext]_vars

\* A notebook is opened on a workspace and run from its first cell.
CloudInit ==
    /\ nb \in Notebooks
    /\ nb_pc = "workspace"
    /\ nb_err = "none"
    /\ halted_at = "none"
    /\ issued = [ o \in Operations |-> 0 ]
    /\ existing \in ExistingTargets(nb)
    /\ lookup = "none"
    /\ compute_target = NoTarget
    /\ hdr = "none"
    /\ runs = << >>
    /\ failures = {}
    /\ best_run = 0
    /\ registered = {}
    /\ acc_seed \in (IF nb = "03-hyperdrive" THEN 0..MaxSeed ELSE { 0 })
    /\ datastore = Persisted
    /\ SbIdle

CloudNext ==
    \/ ConnectWorkspace
    \/ DsvmTargetCell
    \/ SubmitRun
    \/ ScriptMain
    \/ ScriptLoadTrain
    \/ ScriptLoadValid
    \/ ScriptBuildModel
    \/ ScriptFitEpoch
    \/ ScriptSaveModel
    \/ ScriptEnds
    \/ OutputsCollected
    \/ WaitRun
    \/ RunFileNames
    \/ DeleteDsvm
    \/ BatchAiTargetCell
    \/ SubmitSweep
    \/ StartChild
    \/ ChildEnds
    \/ SweepCompletes
    \/ WaitSweep
    \/ GetBestRun
    \/ BestRunMetrics
    \/ BestRunFileNames
    \/ RegisterModel
    \/ DeleteTarget

SpecCloud == CloudInit /\ [][CloudNext]_vars


-----------------------------------------------------------------------------
(* Claims about the sandbox notebook.                                      *)

\* The folder a path lies in.
Dirname(path) == path[1]

\* The number of entries of sequence s equal to x.
Count(s, x) == Cardinality({ i \in DOMAIN s : s[i] = x })

\* The pairs of a path and the label at its position.
Labelled(imgs, labels) == { << imgs[k], labels[k] >> : k \in DOMAIN imgs }

Abs(x) == IF x < 0 THEN -x ELSE x

\* C1: create_image_list gives every folder the label equal to its position
\* (0..N-1) among the folder names in code point order, every emitted path has
\* the label of its folder, one pair is emitted per image, and the two returned
\* sequences have the same length.
C1_LabelsBySortedPosition ==
    sb_pc # "start" =>
        /\ DOMAIN label_map = DOMAIN dir
        /\ \A f \in DOMAIN dir :
               label_map[f] = Cardinality({ g \in DOMAIN dir : StrLess(g, f) })
        /\ { label_map[f] : f \in DOMAIN dir } = 0..(Cardinality(DOMAIN dir) - 1)
        /\ Len(zipped) \in { 0, 2 }
        /\ Len(zipped) = 2 =>
               /\ Len(zipped[1]) = Len(zipped[2])
               /\ Len(zipped[1]) = SumOver(dir, DOMAIN dir)
               /\ \A i \in DOMAIN zipped[1] : zipped[2][i] = label_map[Dirname(zipped[1][i])]

C1_Witness ==
    /\ sb_pc = "unpacked"
    /\ DOMAIN dir = { NameB, NameWat, Water }
    /\ label_map[NameB] = 0 /\ label_map[NameWat] = 1 /\ label_map[Water] = 2
    /\ dir[NameB] = 2 /\ dir[NameWat] = 0 /\ dir[Water] = 3
    /\ label_list = << 0, 0, 2, 2, 2 >>

\* C2: an ImageGenerator over M paths with batch size B yields floor(M / B)
\* batches of B images; the last M mod B paths are never loaded, and
\* predict_generator (hence ResNetFeaturizer.extract, with B = 64) returns
\* floor(M / B) * B feature vectors.
C2_FloorBatches ==
    /\ sb_pc = "predicted" =>
          LET M == Len(gen.image_list)
              B == gen.batch_size
          IN  /\ Len(gen_batches) = M \div B
              /\ \A k \in DOMAIN gen_batches : Len(gen_batches[k]) = B
              /\ Len(gen_features) = (M \div B) * B
              /\ loaded = { gen.image_list[i] : i \in 1..((M \div B) * B) }
              /\ \A i \in ((M \div B) * B + 1)..M : gen.image_list[i] \notin loaded
    /\ sb_pc \in { "train_extracted", "valid_extracted", "prepared" } =>
          /\ Len(train_features) = (Len(train_imgs) \div 64) * 64
          /\ \A i \in ((Len(train_imgs) \div 64) * 64 + 1)..Len(train_imgs) :
                 train_imgs[i] \notin loaded
    /\ sb_pc \in { "valid_extracted", "prepared" } =>
          /\ Len(valid_features) = (Len(valid_imgs) \div 64) * 64
          /\ \A i \in ((Len(valid_imgs) \div 64) * 64 + 1)..Len(valid_imgs) :
                 valid_imgs[i] \notin loaded

C2_Witness ==
    /\ sb_pc = "predicted"
    /\ gen.batch_size = 3
    /\ Len(gen.image_list) = 8
    /\ Len(gen_batches) = 2
    /\ Cardinality(loaded) = 6

\* The directory of the end-to-end scenario: water with 3 images, forest with 5.
ScenarioDir == [ f \in { Water, Forest } |-> IF f = Water THEN 3 ELSE 5 ]

\* C3, as claimed: water gets label 0 and forest label 1; 8 images; batch size
\* 4 gives 2 batches and drops no image.
C3_AsClaimed ==
    (dir = ScenarioDir /\ sb_pc \in { "unpacked", "predicted" }) =>
        /\ label_map[Water] = 0 /\ label_map[Forest] = 1
        /\ Len(img_list) = 8
        /\ (sb_pc = "predicted" /\ gen.batch_size = 4) =>
               (Len(gen_batches) = 2 /\ Cardinality(loaded) = 8)

\* C3, amended: forest sorts before water, so forest gets label 0 and water
\* label 1; 8 images; batch size 4 gives 2 batches and drops no image.
C3_Scenario ==
    (dir = ScenarioDir /\ sb_pc \in { "unpacked", "predicted" }) =>
        /\ label_map[Forest] = 0 /\ label_map[Water] = 1
        /\ Len(img_list) = 8
        /\ label_list = << 0, 0, 0, 0, 0, 1, 1, 1 >>
        /\ (sb_pc = "predicted" /\ gen.batch_size = 4) =>
               /\ Len(gen_batches) = 2
               /\ Len(gen_features) = 8
               /\ loaded = Range(img_list)

C3_Witness ==
    /\ dir = ScenarioDir
    /\ sb_pc = "predicted"
    /\ gen.batch_size = 4
    /\ Len(gen_batches) = 2

\* C4: after the split no path is in both subsets, every enumerated path is in
\* exactly one of them exactly once (the enumerated paths are distinct, the two
\* subsets hold them all and have as many entries), and every path keeps its
\* enumerated label.
C4_SplitIsPartition ==
    /\ sb_pc \in { "split", "train_extracted", "valid_extracted", "prepared" } =>
          /\ Range(train_imgs) \cap Range(valid_imgs) = {}
          /\ Cardinality(Range(img_list)) = Len(img_list)
          /\ Range(train_imgs) \cup Range(valid_imgs) = Range(img_list)
          /\ Len(train_imgs) + Len(valid_imgs) = Len(img_list)
    /\ sb_pc = "split" =>
          /\ Len(train_labels) = Len(train_imgs)
          /\ Len(valid_labels) = Len(valid_imgs)
          /\ Labelled(train_imgs, train_labels) \subseteq Labelled(img_list, label_list)
          /\ Labelled(valid_imgs, valid_labels) \subseteq Labelled(img_list, label_list)

C4_Witness ==
    /\ sb_pc = "split"
    /\ Len(valid_imgs) >= 2
    /\ Cardinality(Range(valid_labels)) = 2
    /\ Cardinality(Range(train_labels)) = 3

\* C5, as claimed: for every class the number of its images in the validation
\* subset differs from 0.15 * n_c by less than 1, the rest being in training.
C5_AsClaimed ==
    sb_pc = "split" =>
        \A c \in Classes(label_list) :
            /\ Abs(100 * Count(valid_labels, c) - TestSizePercent * Count(label_list, c)) < 100
            /\ Count(train_labels, c) = Count(label_list, c) - Count(valid_labels, c)

\* C5, amended: with n images in all and n_test = ceil(0.15 * n), the number of
\* images of class c in the validation subset differs from n_c * n_test / n by
\* less than 1 (so from 0.15 * n_c by less than 2), the rest being in training.
C5_Stratified ==
    sb_pc = "split" =>
        LET n == Len(label_list)
            n_test == (15 * n + 99) \div 100
        IN  /\ Len(valid_labels) = n_test
            /\ \A c \in Classes(label_list) :
                   /\ Abs(n * Count(valid_labels, c) - n_test * Count(label_list, c)) < n
                   /\ Abs(100 * Count(valid_labels, c) - 15 * Count(label_list, c)) < 200
                   /\ Count(train_labels, c) = Count(label_list, c) - Count(valid_labels, c)

C5_Witness ==
    /\ sb_pc = "split"
    /\ Len(label_list) = 14
    /\ Count(label_list, 0) = 12
    /\ Count(valid_labels, 0) = 3
    /\ Count(valid_labels, 1) = 0

-----------------------------------------------------------------------------
(* Claims about the sweep and about the notebooks' failures.                *)

\* The combination of hyperparameters a child run was started with.
Combination(r) == [ units |-> r.args.units, l1 |-> r.args.l1, l2 |-> r.args.l2 ]

\* The child runs that are executing.
Executing == { k \in DOMAIN runs : runs[k].status = "Running" }

\* The grid as the sampling lists it: every choice of units, l1 and l2, 18 in all.
GridAsListed ==
    /\ Grid = { [ units |-> u, l1 |-> x, l2 |-> y ] :
                  u \in Range(UnitsChoices), x \in Range(L1Choices), y \in Range(L2Choices) }
    /\ Cardinality(Grid) = Len(UnitsChoices) * Len(L1Choices) * Len(L2Choices)
    /\ Cardinality(Grid) = 18

C7_BoundedSweep ==
    nb = "03-hyperdrive" =>
        /\ Len(runs) <= 12
        /\ Len(runs) <= max_total_runs
        /\ Cardinality(Executing) <= 4
        /\ Cardinality(Executing) <= max_concurrent_runs
        /\ \A k \in DOMAIN runs :
             /\ runs[k].experiment = "aerial-classifier-hyperdrive"
             /\ Combination(runs[k]) \in Grid

\* The last child run has been started while three others were executing.
C7_Witness ==
    /\ nb = "03-hyperdrive"
    /\ Len(runs) = 12
    /\ Cardinality(Executing) = 4

\* The child runs that completed.
CompletedRuns == { k \in DOMAIN runs : runs[k].status = "Completed" }

\* C8 as the specification states it: the best run is a completed child run,
\* no completed child run logged a higher validation_acc, and a registered
\* model is the file that run saved.
C8_AsClaimed ==
    /\ best_run # 0 =>
         /\ best_run \in CompletedRuns
         /\ \A j \in CompletedRuns :
              HasPrimaryMetric(runs[j]) =>
                  PrimaryMetric(runs[j]) <= PrimaryMetric(runs[best_run])
    /\ \A m \in registered : m.run = best_run /\ m.path \in runs[best_run].files

\* C9: a lookup that finds the target keeps it and creates nothing; a lookup
\* that raises ComputeTargetException is followed by one creation and, once
\* the target is created, by the wait for its provisioning; any other outcome
\* of the lookup ends the notebook in that cell.  No creation is issued unless
\* the lookup raised ComputeTargetException.
C9_LookupOrCreate ==
    /\ lookup = "found" =>
         /\ issued["create"] = 0
         /\ issued["wait_provisioned"] = 0
         /\ compute_target.origin = "found"
         /\ compute_target.type \in ExistingTargets(nb) \ { "none" }
    /\ issued["create"] > 0 => lookup = "ComputeTargetException"
    /\ lookup = "ComputeTargetException" =>
         /\ issued["create"] = 1
         /\ issued["wait_provisioned"] <= 1
         /\ nb_pc # "halted" =>
              /\ issued["wait_provisioned"] = 1
              /\ compute_target.origin = "created"
    /\ lookup \notin { "none", "found", "ComputeTargetException" } =>
         /\ nb_pc = "halted"
         /\ halted_at = "compute"
         /\ compute_target = NoTarget
    /\ issued["lookup"] <= 1

\* The lookup raised ComputeTargetException, the target was created and
\* provisioned, and the notebook went on with it.
C9_Witness ==
    /\ lookup = "ComputeTargetException"
    /\ issued["create"] = 1
    /\ issued["wait_provisioned"] = 1
    /\ compute_target.origin = "created"
    /\ nb_pc = "submit"

\* No step of a script is in its trace twice.
NoRepeat(trace) == \A i, j \in DOMAIN trace : trace[i] = trace[j] => i = j

\* No operation has been issued twice, no operation of a cell after the one
\* that raised has been issued, and a script that raised has saved no model.
C10_Once ==
    /\ \A o \in Operations : issued[o] <= 1
    /\ nb_pc = "halted" =>
         \A o \in Operations :
            /\ OpCell[o] \notin Range(Cells(nb)) => issued[o] = 0
            /\ OpCell[o] \in Range(Cells(nb)) =>
                 (CellIndex(nb, OpCell[o]) > CellIndex(nb, halted_at) => issued[o] = 0)
    /\ \A k \in DOMAIN runs :
         /\ NoRepeat(runs[k].trace)
         /\ runs[k].status = "Failed" <=> (runs[k].pc = "failed" /\ runs[k].status # "Running")
         /\ runs[k].pc = "failed" =>
              /\ model_file \notin runs[k].outputs \cup runs[k].files
              /\ runs[k].status \in { "Running", "Failed" }

\* A notebook that halted runs no further cell, and a script that raised
\* runs no further statement: its run only gets its final status.
C10_Stays ==
    /\ nb_pc = "halted" =>
         UNCHANGED << nb_pc, nb_err, halted_at, issued, compute_target, best_run, registered >>
    /\ \A k \in DOMAIN runs :
         runs[k].pc = "failed" =>
             /\ k \in DOMAIN runs'
             /\ runs'[k] \in { runs[k], [ runs[k] EXCEPT !.status = "Failed" ] }

C11_EpochMetrics ==
    \A k \in DOMAIN runs :
        LET r == runs[k]
        IN  /\ Len(r.training_acc) = r.epoch
            /\ Len(r.validation_acc) = r.epoch
            /\ Len(r.log) = 2 * r.epoch
            /\ \A e \in 1..r.epoch :
                 /\ r.log[2 * e - 1] = << "training_acc", r.training_acc[e] >>
                 /\ r.log[2 * e] = << "validation_acc", r.validation_acc[e] >>
            /\ r.epoch <= EpochsToRun(r.flags)
            /\ r.pc \in { "main", "load_train", "load_valid", "build" } => r.epoch = 0
            /\ r.pc \in { "save", "done" } => r.epoch = EpochsToRun(r.flags)

\* The single run is between two epochs: one is logged, one is to come.
C11_Witness ==
    /\ nb = "02-train"
    /\ Len(runs) = 1
    /\ runs[1].pc = "fit"
    /\ runs[1].epoch = 1
    /\ Len(runs[1].log) = 2
    /\ EpochsToRun(runs[1].flags) = 2

\* s is a prefix of t.
IsPrefix(s, t) == Len(s) <= Len(t) /\ SubSeq(t, 1, Len(s)) = s

\* The status of a run agrees with how its script ended.
C12_Statuses ==
    \A k \in DOMAIN runs :
        /\ runs[k].status \in { "Running", "Finalizing", "Completed", "Failed" }
        /\ runs[k].status \in { "Finalizing", "Completed" } => runs[k].pc = "done"
        /\ runs[k].status = "Failed" => runs[k].pc = "failed"

\* One step of the life of the runs: a run is created executing and without
\* metrics, its metrics only grow and only while it executes, it only moves
\* towards a terminal status, and a terminal run stays as it is.
C12_Step ==
    /\ \A k \in DOMAIN runs :
         /\ k \in DOMAIN runs'
         /\ runs[k].status \in Terminal => runs'[k] = runs[k]
         /\ runs'[k].log # runs[k].log =>
              /\ runs[k].status = "Running"
              /\ IsPrefix(runs[k].log, runs'[k].log)
         /\ runs[k].status = "Finalizing" => runs'[k].status \in { "Finalizing", "Completed" }
    /\ \A k \in DOMAIN runs' \ DOMAIN runs :
         /\ runs'[k].status = "Running"
         /\ runs'[k].pc = "main"
         /\ runs'[k].log = << >>
         /\ \/ nb = "02-train" /\ issued'["submit"] = issued["submit"] + 1
            \/ nb = "03-hyperdrive" /\ issued["submit"] = 1 /\ hdr = "Running"

\* C12: a run is created at submission, executing; its metrics are appended
\* only while it executes; it ends completed or failed, and once it has, its
\* status and its metrics never change.
C12_Lifecycle == []C12_Statuses /\ [][C12_Step]_vars

\* The single run completed with its metrics and the notebook ran to its end.
C12_Witness ==
    /\ nb = "02-train"
    /\ Len(runs) = 1
    /\ runs[1].status = "Completed"
    /\ Len(runs[1].log) = 2 * MaxEpochs
    /\ nb_pc = "end"

\* The delete cell can be run as soon as the notebook is at it, whatever the
\* runs are doing.
C13_Unconditional ==
    /\ (nb = "02-train" /\ nb_pc = "delete") => ENABLED DeleteDsvm
    /\ (nb = "03-hyperdrive" /\ nb_pc = "delete") => ENABLED DeleteTarget

\* A target leaves the workspace only by the delete call of the last cell, and
\* no step ends a run from outside: a run only ends with its script.
C13_OnlyDelete ==
    /\ (existing # "none" /\ existing' = "none") =>
         /\ nb_pc = "delete"
         /\ issued'["delete"] = issued["delete"] + 1
    /\ \A k \in DOMAIN runs :
         /\ k \in DOMAIN runs'
         /\ runs'[k].status \in Terminal => runs'[k].pc \in { "done", "failed" }

\* C13: the delete call of the last cell is the only teardown, and nothing
\* guards it: it does not look at the runs, so it can delete the target of a
\* run that has not reached a terminal status.
C13_UnguardedDelete == []C13_Unconditional /\ [][C13_OnlyDelete]_vars

\* 02-train.ipynb has deleted the DSVM while its run, which was sent to that
\* target, is still being finalized.
C13_Witness ==
    /\ nb = "02-train"
    /\ issued["delete"] = 1
    /\ existing = "none"
    /\ Len(runs) = 1
    /\ runs[1].target = compute_target
    /\ runs[1].status \notin Terminal

\* C14 as the specification states it: for an image root without class
\* folders the caller of the enumerator goes on, without an error, with an
\* empty list of paths and an empty list of labels.
C14_AsClaimed ==
    (DOMAIN dir = {} /\ sb_pc \notin { "idle", "start", "listed" }) =>
        /\ sb_err = "none"
        /\ sb_pc = "unpacked"
        /\ img_list = << >>
        /\ label_list = << >>

\* C15: the only file a run writes to ./outputs is outputs/aerial_classifier.hd5;
\* it is there only when model.fit went through all the epochs of the flags and
\* model.save returned; a run whose script raised has no model, a completed run
\* has exactly that one; and a registered model is that file of a run that
\* wrote it.
C15_OneModelAfterTraining ==
    /\ \A k \in DOMAIN runs :
         LET r == runs[k]
         IN  /\ r.outputs \subseteq { "outputs/aerial_classifier.hd5" }
             /\ r.files \subseteq r.outputs
             /\ r.outputs # {} =>
                  /\ r.pc = "done"
                  /\ r.epoch = EpochsToRun(r.flags)
                  /\ Len(r.validation_acc) = EpochsToRun(r.flags)
                  /\ << "save", r.epoch >> \in Range(r.trace)
             /\ r.pc = "failed" => r.outputs = {} /\ r.files = {}
             /\ r.status = "Completed" => r.files = { "outputs/aerial_classifier.hd5" }
    /\ \A m \in registered :
         /\ m.path = "outputs/aerial_classifier.hd5"
         /\ m.run \in DOMAIN runs
         /\ m.path \in runs[m.run].outputs
         /\ m.path \in runs[m.run].files

\* A model has been registered from a completed child run of a sweep in which
\* another child run failed and left no model.
C15_Witness ==
    /\ nb = "03-hyperdrive"
    /\ \E m \in registered : runs[m.run].status = "Completed"
    /\ \E k \in DOMAIN runs : runs[k].status = "Failed" /\ runs[k].outputs = {}

\* The script of the run has parsed its command line.
Parsed(r) == r.pc # "main" /\ ~(r.pc = "failed" /\ Len(r.trace) = 1)

\* The defaults of train.py's flags as listed.
DefaultsAsListed ==
    FlagDefaults = [ batch_size |-> 32, epochs |-> 10, units |-> 512, l1 |-> 10,
                     l2 |-> 10, data_folder |-> "./bottleneck" ]

\* C16: a flag has the value given on the command line, else its default
\* (batch_size 32, epochs 10, units 512, l1 0.01, l2 0.01, data_folder
\* ./bottleneck); so a child run of the sweep trains with the units, l1 and l2
\* of its grid combination, 50 epochs and batches of 32, and the single run
\* with units 512, l1 0.001, l2 0.001, 75 epochs and batches of 32.
C16_FlagResolution ==
    /\ DefaultsAsListed
    /\ \A k \in DOMAIN runs :
         Parsed(runs[k]) =>
            LET r == runs[k]
            IN  /\ \A f \in DOMAIN FlagDefaults :
                     /\ f \in DOMAIN r.args => r.flags[f] = r.args[f]
                     /\ f \notin DOMAIN r.args => r.flags[f] = FlagDefaults[f]
                /\ r.flags.batch_size = 32
                /\ nb = "03-hyperdrive" =>
                     /\ [ units |-> r.flags.units, l1 |-> r.flags.l1, l2 |-> r.flags.l2 ]
                            = SweepPoint(acc_seed, k)
                     /\ [ units |-> r.flags.units, l1 |-> r.flags.l1, l2 |-> r.flags.l2 ] \in Grid
                     /\ r.flags.epochs = 50
                /\ nb = "02-train" =>
                     /\ r.flags.units = 512
                     /\ r.flags.l1 = 1
                     /\ r.flags.l2 = 1
                     /\ r.flags.epochs = 75

\* A child run of the sweep has trained with values that are not the defaults.
C16_Witness ==
    /\ nb = "03-hyperdrive"
    /\ \E k \in DOMAIN runs :
         /\ runs[k].status = "Completed"
         /\ runs[k].flags.units = 256
         /\ runs[k].flags.l1 = 50
         /\ runs[k].flags.l2 = 1
         /\ runs[k].flags.epochs = 50

\* The labels of the images of a list, read off their folders.
LabelsOf(imgs) == [ i \in DOMAIN imgs |-> label_map[Dirname(imgs[i])] ]

\* C17: after the feature-extraction cell valid_labels is the first
\* len(valid_features) entries of train_labels, itself cut to the first
\* len(train_features) labels of the training images; it is taken from the
\* training labels, not from the labels the split gave the validation images.
C17_ValidLabelsFromTrain ==
    sb_pc = "prepared" =>
        /\ train_labels = SubSeq(LabelsOf(train_imgs), 1, Len(train_features))
        /\ Len(valid_labels) = Min(Len(valid_features), Len(train_labels))
        /\ \A i \in DOMAIN valid_labels :
             /\ valid_labels[i] = train_labels[i]
             /\ valid_labels[i] = label_map[Dirname(train_imgs[i])]

\* The validation subset fills a batch, and the labels kept for it are not
\* the labels of its images.
C17_Witness ==
    /\ sb_pc = "prepared"
    /\ Len(valid_features) = 64
    /\ Len(valid_labels) = 64
    /\ valid_labels # SubSeq(LabelsOf(valid_imgs), 1, Len(valid_features))

\* C18 as the notebook's text states it: when 02-train.ipynb has run to its
\* end and its run has completed, the model of the run is in the registry.
C18_AsClaimed ==
    (nb = "02-train" /\ nb_pc = "end" /\ Len(runs) = 1 /\ runs[1].status = "Completed") =>
        \E m \in registered : m.run = 1

\* C19 as the notebook's text states it: the sweep is configured for 20 runs
\* in all, so that a completed sweep has run every combination of the grid,
\* and for 4 concurrent runs, the maximum of nodes of the cluster, so that the
\* child runs that execute, one node each, never need more nodes than that.
C19_AsClaimed ==
    /\ max_total_runs = 20
    /\ max_concurrent_runs = 4
    /\ max_concurrent_runs = cluster_max_nodes
    /\ nb = "03-hyperdrive" =>
         /\ Cardinality(Executing) * node_count <= cluster_max_nodes
         /\ hdr = "Completed" => { Combination(runs[k]) : k \in DOMAIN runs } = Grid

\* C20: no child run of the sweep is stopped by the service on its metrics. A
\* child run that has ended has either run all the epochs it was configured
\* for, logging a validation accuracy for each, or has failed; none is canceled.
C20_NoEarlyTermination ==
    nb = "03-hyperdrive" =>
      \A k \in DOMAIN runs :
        /\ runs[k].status # "Canceled"
        /\ runs[k].pc # "stopped"
        /\ runs[k].status \in Terminal =>
             \/ /\ runs[k].status = "Completed"
                /\ runs[k].epoch = EpochsToRun(runs[k].flags)
                /\ Len(runs[k].validation_acc) = EpochsToRun(runs[k].flags)
             \/ /\ runs[k].status = "Failed"
                /\ runs[k].pc = "failed"

\* A child that completed all its epochs although its validation accuracy
\* after the first epoch was below that of another child, next to a child
\* that failed.
C20_Witness ==
    /\ nb = "03-hyperdrive"
    /\ \E k \in DOMAIN runs, j \in DOMAIN runs :
         /\ runs[k].status = "Completed"
         /\ runs[j].status = "Completed"
         /\ runs[k].epoch = EpochsToRun(runs[k].flags)
         /\ runs[k].validation_acc[1] < runs[j].validation_acc[1]
    /\ \E f \in DOMAIN runs : runs[f].status = "Failed"

\* The wait cell of the notebook has returned: the notebook is at a later
\* cell, at its end, or halted in a later cell.
WaitCellRan ==
    /\ nb \in Notebooks
    /\ \/ nb_pc = "end"
       \/ nb_pc \in Range(Cells(nb)) /\ CellIndex(nb, nb_pc) > CellIndex(nb, "wait")
       \/ nb_pc = "halted" /\ CellIndex(nb, halted_at) > CellIndex(nb, "wait")

\* The calls of the cells after the wait cell.
CallsAfterWait ==
    { o \in Operations :
        /\ OpCell[o] \in Range(Cells(nb))
        /\ CellIndex(nb, OpCell[o]) > CellIndex(nb, "wait") }

\* C21 as stated: once wait_for_completion has returned, the single run is
\* in a terminal state, and the sweep and all its child runs are.
C21_AsClaimed ==
    WaitCellRan =>
        /\ nb = "02-train" => runs[1].status \in Terminal
        /\ nb = "03-hyperdrive" =>
             /\ hdr = "Completed"
             /\ \A k \in DOMAIN runs : runs[k].status \in Terminal

\* C21: the notebook runs one cell at a time and wait_for_completion returns
\* only when the run is no longer running: no call of a later cell is issued
\* before, and once the wait has returned, the script of the single run has
\* ended (the run is finalizing, completed or failed, and logs no more), and
\* the sweep has completed with all its child runs started and ended.
C21_WaitBlocks ==
    /\ nb \in Notebooks /\ ~WaitCellRan => \A o \in CallsAfterWait : issued[o] = 0
    /\ WaitCellRan =>
        /\ issued["wait_for_completion"] = 1
        /\ nb = "02-train" =>
             /\ Len(runs) = 1
             /\ runs[1].status \in { "Finalizing", "Completed", "Failed" }
             /\ runs[1].pc \in { "done", "failed" }
             /\ runs[1].pc = "done" => runs[1].epoch = EpochsToRun(runs[1].flags)
        /\ nb = "03-hyperdrive" =>
             /\ hdr = "Completed"
             /\ Len(runs) = TotalRuns
             /\ \A k \in DOMAIN runs :
                  /\ runs[k].status \in Terminal
                  /\ runs[k].pc \in { "done", "failed" }

\* The cell after the wait is to run while the single run is still finalizing.
C21_Witness ==
    /\ nb = "02-train"
    /\ nb_pc = "files"
    /\ issued["wait_for_completion"] = 1
    /\ runs[1].status = "Finalizing"

\* The files a run has read when it is at statement pc of train.py.
FilesReadAt(pc) ==
    IF pc \in { "main", "load_train" } THEN {}
    ELSE IF pc = "load_valid" THEN { "train" }
    ELSE DataFiles

\* C22: the files of the dataset stay as the feature extraction persisted
\* them: no training run, single or child of a sweep, writes, truncates or
\* deletes one. A run holds of a file either nothing yet or its persisted
\* 'features' and 'labels' arrays, so all the runs that have read a file,
\* those of a sweep that execute together included, hold identical data; a
\* run that has got past the two reads holds both files.
C22_DatasetReadOnly ==
    /\ datastore = Persisted
    /\ \A k \in DOMAIN runs :
         /\ \A f \in DataFiles : runs[k].data[f] \in { Unread, Persisted[f] }
         /\ runs[k].pc # "failed" =>
              \A f \in DataFiles : runs[k].data[f] # Unread <=> f \in FilesReadAt(runs[k].pc)
    /\ \A j, k \in DOMAIN runs :
         \A f \in DataFiles :
            runs[j].data[f] # Unread /\ runs[k].data[f] # Unread
               => runs[j].data[f] = runs[k].data[f]

\* Two child runs of a sweep have read both files from the mounted folder
\* while another child run is executing.
C22_Witness ==
    /\ nb = "03-hyperdrive"
    /\ \E j, k, e \in DOMAIN runs :
         /\ j # k
         /\ Mounted(runs[j])
         /\ \A f \in DataFiles : runs[j].data[f] = Persisted[f] /\ runs[k].data[f] = Persisted[f]
         /\ runs[e].status = "Running"

\* C23: after the feature extraction cell the labels and the features of
\* each subset have the same length, the number of images of the subset
\* rounded down to a multiple of 64: with T training and V validation images,
\* floor(T / 64) * 64 for the training subset and floor(V / 64) * 64 for the
\* validation subset.
C23_LengthsAligned ==
    sb_pc = "prepared" =>
        /\ Len(train_labels) = Len(train_features)
        /\ Len(train_features) = (Len(train_imgs) \div 64) * 64
        /\ Len(valid_labels) = Len(valid_features)
        /\ Len(valid_features) = (Len(valid_imgs) \div 64) * 64

\* The cell has run on subsets that are no multiples of 64: images of both
\* subsets are left without features, and both subsets keep some.
C23_Witness ==
    /\ sb_pc = "prepared"
    /\ Len(train_imgs) % 64 # 0
    /\ Len(valid_imgs) % 64 # 0
    /\ Len(valid_labels) = 64
    /\ Len(train_labels) > Len(valid_labels)
    /\ Len(train_labels) < Len(train_imgs)

\* The paths of the images of a batch, in the order of the batch.
BatchPaths(batch) == [ j \in DOMAIN batch |-> batch[j].pixels_of ]

\* C24: with M input paths and batch size B the generator yields floor(M / B)
\* batches; batch i (from 0) holds exactly the B paths at positions
\* i * B .. (i + 1) * B - 1 of the input, in input order; the batches are
\* pairwise disjoint (of B paths each, they hold floor(M / B) * B distinct
\* paths) and together hold exactly the first floor(M / B) * B paths; and the
\* k-th feature vector is that of the k-th input path.
C24_BatchContents ==
    sb_pc = "predicted" =>
        LET B == gen.batch_size
            M == Len(gen.image_list)
            n == M \div B
        IN  /\ gen.image_list = img_list
            /\ Len(gen_batches) = n
            /\ \A i \in 0..(n - 1) :
                 /\ Len(gen_batches[i + 1]) = B
                 /\ \A j \in 1..B :
                      gen_batches[i + 1][j].pixels_of = gen.image_list[i * B + j]
            /\ LET held == UNION { Range(BatchPaths(gen_batches[i])) : i \in 1..n }
               IN  /\ Cardinality(held) = n * B
                   /\ held = Range(SubSeq(gen.image_list, 1, n * B))
            /\ Len(gen_features) = n * B
            /\ \A k \in 1..(n * B) : gen_features[k].feature_of = gen.image_list[k]

\* Three batches of more than one path each have been drawn and paths are
\* left over.
C24_Witness ==
    /\ sb_pc = "predicted"
    /\ gen.batch_size > 1
    /\ Len(gen_batches) = 3
    /\ Len(gen.image_list) % gen.batch_size # 0

\* C25: the enumerator emits the images class by class in the sorted order of
\* the folders, so the labels it returns never decrease; a folder without
\* images contributes no entry, so the labels that occur are the positions of
\* the folders that hold images, which need not be all of 0..N-1.
C25_LabelsGrouped ==
    sb_pc # "start" /\ Len(zipped) = 2 =>
        LET labels == zipped[2]
        IN  /\ \A i \in 1..(Len(labels) - 1) : labels[i] <= labels[i + 1]
            /\ Range(labels) = { label_map[f] : f \in { g \in DOMAIN dir : dir[g] > 0 } }
            /\ Range(labels) \subseteq 0..(Cardinality(DOMAIN dir) - 1)
            /\ \A f \in DOMAIN dir :
                 Cardinality({ i \in DOMAIN labels : labels[i] = label_map[f] }) = dir[f]

\* Images of two classes have been enumerated and a folder between the two
\* held none: its label does not occur.
C25_Witness ==
    /\ sb_pc = "listed"
    /\ Len(zipped) = 2
    /\ Cardinality(DOMAIN dir) = 3
    /\ Range(zipped[2]) = { 0, 2 }
    /\ zipped[2][1] = 0
    /\ zipped[2][Len(zipped[2])] = 2

\* C26 as stated: in the hyperparameter tuning notebook the best run is
\* selected only after the wait has returned, among child runs that have all
\* ended; the model is registered after the selection and before any deletion;
\* and the final cell, once it has run, has called for the deletion of the
\* cluster bound to compute_target, which is gone when the notebook is at its end.
C26_AsClaimed ==
    nb = "03-hyperdrive" =>
        /\ issued["wait_for_completion"] > 0 => issued["submit"] = 1
        /\ issued["get_best_run"] > 0 =>
             /\ issued["wait_for_completion"] = 1
             /\ \A k \in DOMAIN runs : runs[k].status \in Terminal
        /\ issued["register_model"] > 0 => issued["get_best_run"] = 1
        /\ issued["delete"] > 0 => issued["register_model"] = 1
        /\ (nb_pc = "end" \/ (nb_pc = "halted" /\ halted_at = "delete")) =>
             /\ issued["delete"] = 1
             /\ nb_pc = "end" => existing = "none"

\* C27 as stated: once the compute target cell of the hyperparameter tuning
\* notebook has finished without raising, compute_target is a Batch AI
\* cluster, found or newly created, and every child run of the sweep runs on
\* a Batch AI cluster.
C27_AsClaimed ==
    nb = "03-hyperdrive" =>
        /\ (nb_pc # "halted" /\ issued["lookup"] > 0) =>
             /\ compute_target.type = "BatchAiCompute"
             /\ compute_target.origin \in { "found", "created" }
        /\ \A k \in DOMAIN runs : runs[k].target.type = "BatchAiCompute"

\* C28: in the training cell the step counts times the batch size of 64 give
\* the numbers of extracted features exactly, for the training and for the
\* validation subset, so the steps of one epoch visit every extracted feature
\* vector once; and validation_steps is 0 whenever the validation subset has
\* fewer than 64 images.
C28_StepsCoverFeatures ==
    sb_pc = "fitted" =>
        /\ fit.steps_per_epoch * 64 = Len(train_features)
        /\ fit.validation_steps * 64 = Len(valid_features)
        /\ Len(fit.train_epoch) = fit.steps_per_epoch
        /\ Len(fit.valid_epoch) = fit.validation_steps
        /\ Len(Flatten(fit.train_epoch)) = Len(train_features)
        /\ Range(Flatten(fit.train_epoch)) = DOMAIN train_features
        /\ Len(Flatten(fit.valid_epoch)) = Len(valid_features)
        /\ Range(Flatten(fit.valid_epoch)) = DOMAIN valid_features
        /\ Len(valid_imgs) < 64 => fit.validation_steps = 0

\* An epoch of several training steps and one validation step has been run.
C28_Witness ==
    /\ sb_pc = "fitted"
    /\ fit.steps_per_epoch > 1
    /\ fit.validation_steps = 1
    /\ Len(train_imgs) > Len(train_features)

\* The training cell has run on a validation subset of fewer than 64 images.
C28_WitnessNoValidation ==
    /\ sb_pc = "fitted"
    /\ Len(valid_imgs) > 0
    /\ Len(valid_imgs) < 64
    /\ fit.validation_steps = 0

=============================================================================
